---------------------------- MODULE Spec2Model ----------------------------
(***************************************************************************)
(* A model of python_surfer's WcpClient (python/src/python_surfer/         *)
(* wcpclient.py): the message dataclasses, send_message with its simulated *)
(* server, and the two helpers get_item_list and add_variables.            *)
(*                                                                         *)
(* One client object is modelled.  Its only field is server_url.  The      *)
(* histories sent, replies and calls are observation variables: they       *)
(* record, in program order, every message handed to send_message, what    *)
(* send_message did with it (returned an SCMessage or raised), and every   *)
(* helper call with its result.                                            *)
(*                                                                         *)
(* Python values are encoded as follows.                                   *)
(*   Optional[T]   None is <<>>, a present value x is <<x>>                *)
(*   str           a TLA+ string, except version strings, which are        *)
(*                 sequences of one-character strings so that their        *)
(*                 syntax can be examined                                  *)
(*   List[T]       a sequence                                              *)
(*   dataclass     a record with the dataclass's field names               *)
(*   a call        [kind |-> "return", value |-> v] or                     *)
(*                 [kind |-> "raise", exc |-> name]                        *)
(***************************************************************************)
EXTENDS Integers, Sequences, FiniteSets, TLC

VARIABLES server_url, sent, replies, calls

\* Two clients side by side: their server_url fields, and every operation
\* performed on either of them, in program order.
VARIABLES urls, log

\* The last call of HexTranslator.basic_translate: its arguments and result.
VARIABLES translated

\* PeriodicVCDGenerator: the signals list, the lines written to the file, the
\* arguments and the loop variable of simulate, and the position in generate.
VARIABLES signals, file, sample_interval_ps, duration_ps, current_time, pc

\* The last calls of encode_id, and the last value line formatted: arguments
\* and results.
VARIABLES encoded, formatted

wcpVars == <<server_url, sent, replies, calls>>

clientsVars == <<urls, log>>

hexVars == <<translated>>

genVars == <<signals, file, sample_interval_ps, duration_ps, current_time, pc>>

fnVars == <<encoded, formatted>>

vars == <<wcpVars, clientsVars, hexVars, genVars, fnVars>>

\* Each specification below runs one part of the repository; the variables of
\* the other parts stay as these predicates leave them.
WcpIdle == server_url = "" /\ sent = <<>> /\ replies = <<>> /\ calls = <<>>

ClientsIdle == urls = <<>> /\ log = <<>>

HexIdle == translated = <<>>

GenIdle ==
    /\ signals = <<>>
    /\ file = <<>>
    /\ sample_interval_ps = 0
    /\ duration_ps = 0
    /\ current_time = 0
    /\ pc = "idle"

FnIdle == encoded = <<>> /\ formatted = <<>>

notWcp == <<clientsVars, hexVars, genVars, fnVars>>

notClients == <<wcpVars, hexVars, genVars, fnVars>>

notHex == <<wcpVars, clientsVars, genVars, fnVars>>

notGen == <<wcpVars, clientsVars, hexVars, fnVars>>

notFn == <<wcpVars, clientsVars, hexVars, genVars>>

(***************************************************************************)
(* Bounds of the model.                                                    *)
(***************************************************************************)
\* Number of top-level operations performed on the client.
MaxOps == 3
\* Longest list of names passed to add_variables.
MaxNames == 2
\* Number of operations performed on the two clients taken together.
MaxClientOps == 2
\* Longest value string handed to basic_translate.
MaxValueLen == 3
\* Longest simulated duration, in picoseconds.
MaxDuration == 12
\* Every number up to this one is handed to encode_id.
MaxId == 96

(***************************************************************************)
(* Python's Optional.                                                      *)
(***************************************************************************)
None == <<>>

Some(x) == <<x>>

IsNone(o) == o = <<>>

Get(o) == o[1]

Return(v) == [kind |-> "return", value |-> v]

Raise(e) == [kind |-> "raise", exc |-> e]

Returned(o) == o.kind = "return"

(***************************************************************************)
(* The dataclasses.                                                        *)
(***************************************************************************)
DisplayedItemRef(id) == [id |-> id]

\* args is the dict of the command; the only key ever stored is "names".
WcpCommand(command_type, names) ==
    [command_type |-> command_type, args |-> [names |-> names]]

WcpResponse(response_type, data) ==
    [response_type |-> response_type, data |-> data]

WcpEvent(event_type, data) == [event_type |-> event_type, data |-> data]

WcpCSMessage(message_type, version, commands, command) ==
    [message_type |-> message_type, version |-> version,
     commands |-> commands, command |-> command]

WcpSCMessage(message_type, version, commands, response, error, event) ==
    [message_type |-> message_type, version |-> version, commands |-> commands,
     response |-> response, error |-> error, event |-> event]

(***************************************************************************)
(* The simulated server: the four messages it can build.                   *)
(***************************************************************************)
ServerVersion == <<"1", ".", "0">>

\* Variant: the capability list omits add_variables.
GreetingReply_OneCommand ==
    WcpSCMessage("greeting", Some(ServerVersion),
                 Some(<<"get_item_list">>), None, None, None)

GreetingReply ==
    WcpSCMessage("greeting", Some(ServerVersion),
                 Some(<<"get_item_list", "add_variables">>), None, None, None)

\* Variant: the item list is refused as if the session were not ready.
GetItemListReply_NotReady ==
    WcpSCMessage("error", None, None, None,
                 Some([error |-> "not_ready",
                       message |-> "Handshake not completed"]),
                 None)

GetItemListReply ==
    WcpSCMessage("response", None, None,
                 Some(WcpResponse("get_item_list", Some(<<"item1", "item2">>))),
                 None, None)

\* Variant: the response built for add_variables keeps the tag of the branch
\* it was copied from.
AddVariablesReply_WrongTag ==
    WcpSCMessage("response", None, None,
                 Some(WcpResponse("get_item_list",
                      Some(<<DisplayedItemRef("var1"), DisplayedItemRef("var2")>>))),
                 None, None)

\* Variant: the response also carries the handshake's version and commands.
AddVariablesReply_Flat ==
    WcpSCMessage("response", Some(ServerVersion),
                 Some(<<"get_item_list", "add_variables">>),
                 Some(WcpResponse("add_variables",
                      Some(<<DisplayedItemRef("var1"), DisplayedItemRef("var2")>>))),
                 None, None)

AddVariablesReply ==
    WcpSCMessage("response", None, None,
                 Some(WcpResponse("add_variables",
                      Some(<<DisplayedItemRef("var1"), DisplayedItemRef("var2")>>))),
                 None, None)

\* Variant: the error payload has no message entry.
ErrorReply_NoMessage ==
    WcpSCMessage("error", None, None, None,
                 Some([error |-> "Unknown command"]),
                 None)

ErrorReply ==
    WcpSCMessage("error", None, None, None,
                 Some([error |-> "Unknown command",
                       message |-> "Command not recognized"]),
                 None)

\* Variant: the last command branch is an else, so every command that is not
\* get_item_list is answered as add_variables.
_simulate_server_response_ElseBranch(message) ==
    IF message.message_type = "greeting"
    THEN Return(GreetingReply)
    ELSE IF message.message_type = "command"
    THEN IF IsNone(message.command)
         THEN Raise("AttributeError")
         ELSE IF Get(message.command).command_type = "get_item_list"
         THEN Return(GetItemListReply)
         ELSE Return(AddVariablesReply)
    ELSE Return(ErrorReply)

\* Variant: a greeting that declares no version is refused.
_simulate_server_response_NeedsVersion(message) ==
    IF message.message_type = "greeting" /\ ~IsNone(message.version)
    THEN Return(GreetingReply)
    ELSE IF message.message_type = "command"
    THEN IF IsNone(message.command)
         THEN Raise("AttributeError")
         ELSE IF Get(message.command).command_type = "get_item_list"
         THEN Return(GetItemListReply)
         ELSE IF Get(message.command).command_type = "add_variables"
         THEN Return(AddVariablesReply)
         ELSE Return(ErrorReply)
    ELSE Return(ErrorReply)

\* Variant: every message that is not a greeting is dispatched as a command.
_simulate_server_response_NoTypeCheck(message) ==
    IF message.message_type = "greeting"
    THEN Return(GreetingReply)
    ELSE IF IsNone(message.command)
         THEN Raise("AttributeError")
         ELSE IF Get(message.command).command_type = "get_item_list"
         THEN Return(GetItemListReply)
         ELSE IF Get(message.command).command_type = "add_variables"
         THEN Return(AddVariablesReply)
         ELSE Return(ErrorReply)

\* Variant: the greeting reply echoes the version the client declared.
_simulate_server_response_EchoVersion(message) ==
    IF message.message_type = "greeting"
    THEN Return(WcpSCMessage("greeting",
                             IF IsNone(message.version)
                             THEN Some(ServerVersion) ELSE message.version,
                             Some(<<"get_item_list", "add_variables">>),
                             None, None, None))
    ELSE IF message.message_type = "command"
    THEN IF IsNone(message.command)
         THEN Raise("AttributeError")
         ELSE IF Get(message.command).command_type = "get_item_list"
         THEN Return(GetItemListReply)
         ELSE IF Get(message.command).command_type = "add_variables"
         THEN Return(AddVariablesReply)
         ELSE Return(ErrorReply)
    ELSE Return(ErrorReply)

(***************************************************************************)
(* _simulate_server_response.  message.command.command_type is evaluated   *)
(* as soon as message_type is "command"; on a message built without a      *)
(* command (command is None) that attribute access raises AttributeError.  *)
(***************************************************************************)
_simulate_server_response(message) ==
    IF message.message_type = "greeting"
    THEN Return(GreetingReply)
    ELSE IF message.message_type = "command"
    THEN IF IsNone(message.command)
         THEN Raise("AttributeError")
         ELSE IF Get(message.command).command_type = "get_item_list"
         THEN Return(GetItemListReply)
         ELSE IF Get(message.command).command_type = "add_variables"
         THEN Return(AddVariablesReply)
         ELSE Return(ErrorReply)
    ELSE Return(ErrorReply)

\* Variant: the reply is computed for a get_item_list command, not for the
\* message passed.
send_message_Stale(message) ==
    _simulate_server_response(
        WcpCSMessage("command", None, None, Some(WcpCommand("get_item_list", None))))

\* Variant: the client remembers what it has sent and refuses a message it
\* has sent before.
send_message_Once(message) ==
    IF \E p \in 1..Len(log) : log[p].message = message
    THEN Return(ErrorReply)
    ELSE _simulate_server_response(message)

\* send_message hands the message to the simulated server and returns what
\* it returns; an exception propagates.
send_message(message) == _simulate_server_response(message)

(***************************************************************************)
(* The helpers, as functions of the outcome of their send_message call.    *)
(***************************************************************************)
GetItemListMessage ==
    WcpCSMessage("command", None, None, Some(WcpCommand("get_item_list", None)))

AddVariablesMessage(names) ==
    WcpCSMessage("command", None, None,
                 Some(WcpCommand("add_variables", Some(names))))

\* Variant: the outer tag of the message is not looked at; any message that
\* carries a get_item_list response payload is taken as the result.
get_item_list_result_NoOuterTag(out) ==
    IF ~Returned(out)
    THEN out
    ELSE LET response == out.value
         IN  IF IsNone(response.response)
             THEN IF response.message_type = "response"
                  THEN Raise("AttributeError")
                  ELSE Return(<<>>)
             ELSE IF Get(response.response).response_type = "get_item_list"
             THEN Return(Get(Get(response.response).data))
             ELSE Return(<<>>)

\* The second test of the condition is evaluated only when the first holds;
\* response.response.response_type on a message of type response that has no
\* response raises AttributeError.
get_item_list_result(out) ==
    IF ~Returned(out)
    THEN out
    ELSE LET response == out.value
         IN  IF response.message_type # "response"
             THEN Return(<<>>)
             ELSE IF IsNone(response.response)
             THEN Raise("AttributeError")
             ELSE IF Get(response.response).response_type = "get_item_list"
             THEN Return(Get(Get(response.response).data))
             ELSE Return(<<>>)

add_variables_result(out) ==
    IF ~Returned(out)
    THEN out
    ELSE LET response == out.value
         IN  IF response.message_type # "response"
             THEN Return(<<>>)
             ELSE IF IsNone(response.response)
             THEN Raise("AttributeError")
             ELSE IF Get(response.response).response_type = "add_variables"
             THEN Return(Get(Get(response.response).data))
             ELSE Return(<<>>)

(***************************************************************************)
(* Inputs.                                                                 *)
(***************************************************************************)
Urls == {"http://localhost:8080"}

Names == {"a", "b"}

RECURSIVE SeqsUpTo(_, _)
SeqsUpTo(S, n) ==
    IF n = 0
    THEN {<<>>}
    ELSE LET shorter == SeqsUpTo(S, n - 1)
         IN  shorter \cup {Append(s, x) : s \in shorter, x \in S}

NameLists == SeqsUpTo(Names, MaxNames)

\* Versions a client may declare: absent, well formed, and malformed ones.
VersionInputs ==
    {None, Some(<<"1", ".", "0">>), Some(<<"2", ".", "1">>),
     Some(<<"1">>), Some(<<"x", ".", "0">>), Some(<<>>)}

CommandInputs ==
    {None,
     Some(WcpCommand("get_item_list", None)),
     Some(WcpCommand("unknown_command", None)),
     Some(WcpCommand("add_variables", None))}
    \cup {Some(WcpCommand("add_variables", Some(n))) : n \in SeqsUpTo(Names, 1)}

CSMessages ==
    {WcpCSMessage("greeting", v, None, None) : v \in VersionInputs}
    \cup {WcpCSMessage("command", None, None, c) : c \in CommandInputs}
    \cup {WcpCSMessage("invalid_type", None, None, None),
          WcpCSMessage("invalid_type", Some(<<"1", ".", "0">>), None,
                       Some(WcpCommand("get_item_list", None)))}

(***************************************************************************)
(* The state machine.                                                      *)
(***************************************************************************)
Init ==
    /\ server_url \in Urls
    /\ sent = <<>>
    /\ replies = <<>>
    /\ calls = <<>>
    /\ ClientsIdle
    /\ HexIdle
    /\ GenIdle
    /\ FnIdle

\* client.send_message(message), called directly.
SendMessage ==
    /\ Len(sent) < MaxOps
    /\ \E message \in CSMessages :
          /\ sent' = Append(sent, message)
          /\ replies' = Append(replies, send_message(message))
    /\ UNCHANGED <<server_url, calls>>
    /\ UNCHANGED notWcp

\* client.get_item_list().
GetItemList ==
    /\ Len(sent) < MaxOps
    /\ LET message == GetItemListMessage
           out == send_message(message)
       IN  /\ sent' = Append(sent, message)
           /\ replies' = Append(replies, out)
           /\ calls' = Append(calls, [op |-> "get_item_list", names |-> <<>>,
                                      at |-> Len(sent) + 1,
                                      result |-> get_item_list_result(out)])
    /\ UNCHANGED server_url
    /\ UNCHANGED notWcp

\* client.add_variables(names).
AddVariables ==
    /\ Len(sent) < MaxOps
    /\ \E names \in NameLists :
          LET message == AddVariablesMessage(names)
              out == send_message(message)
          IN  /\ sent' = Append(sent, message)
              /\ replies' = Append(replies, out)
              /\ calls' = Append(calls, [op |-> "add_variables", names |-> names,
                                         at |-> Len(sent) + 1,
                                         result |-> add_variables_result(out)])
    /\ UNCHANGED server_url
    /\ UNCHANGED notWcp

Next ==
    \/ SendMessage
    \/ GetItemList
    \/ AddVariables

Spec == Init /\ [][Next]_vars

(***************************************************************************)
(* The helpers against an arbitrary server.  What a helper makes of the    *)
(* message send_message returns is a function of that message alone; here  *)
(* the message is drawn from the values of WcpSCMessage instead of being   *)
(* computed by the simulated server, and each call is observed on its own  *)
(* (the histories hold the last call only).                                *)
(***************************************************************************)
SCMessageTypes == {"greeting", "response", "error", "event"}

ResponseKinds == {"get_item_list", "add_variables", "get_item_info"}

\* The lists a response may carry: item names or item references.
DataInputs ==
    << <<>>,
       <<"item1", "item2">>,
       <<"a">>,
       <<DisplayedItemRef("var1"), DisplayedItemRef("var2")>>,
       <<DisplayedItemRef("a")>> >>

\* A message of type t; n = 0 gives it no response, otherwise it carries a
\* response of kind k with the n-th list.
AnySCMessage(t, k, n) ==
    WcpSCMessage(t, None, None,
                 IF n = 0 THEN None ELSE Some(WcpResponse(k, Some(DataInputs[n]))),
                 IF t = "error"
                 THEN Some([error |-> "Unknown command",
                            message |-> "Command not recognized"])
                 ELSE None,
                 IF t = "event"
                 THEN Some(WcpEvent("item_added", None))
                 ELSE None)

\* client.get_item_list(), send_message returning an arbitrary message.
GetItemListAnyReply ==
    \E t \in SCMessageTypes, k \in ResponseKinds, n \in 0..Len(DataInputs) :
        LET out == Return(AnySCMessage(t, k, n))
        IN  /\ sent' = <<GetItemListMessage>>
            /\ replies' = <<out>>
            /\ calls' = <<[op |-> "get_item_list", names |-> <<>>, at |-> 1,
                           result |-> get_item_list_result(out)]>>
            /\ UNCHANGED server_url
            /\ UNCHANGED notWcp

\* client.add_variables(names), send_message returning an arbitrary message.
AddVariablesAnyReply ==
    \E names \in NameLists :
        \E t \in SCMessageTypes, k \in ResponseKinds, n \in 0..Len(DataInputs) :
            LET out == Return(AnySCMessage(t, k, n))
            IN  /\ sent' = <<AddVariablesMessage(names)>>
                /\ replies' = <<out>>
                /\ calls' = <<[op |-> "add_variables", names |-> names, at |-> 1,
                               result |-> add_variables_result(out)]>>
                /\ UNCHANGED server_url
                /\ UNCHANGED notWcp

NextAnyServer ==
    \/ GetItemListAnyReply
    \/ AddVariablesAnyReply

SpecAnyServer == Init /\ [][NextAnyServer]_vars

(***************************************************************************)
(* Two clients.  Each is a WcpClient of its own, constructed with its own  *)
(* server_url; the operations of the two interleave in any order.  log     *)
(* records, per operation, the client, the message handed to send_message  *)
(* and what send_message did with it.                                      *)
(***************************************************************************)
Clients == {1, 2}

ClientUrls == <<"http://localhost:8080", "http://localhost:9090">>

InitClients ==
    /\ urls = ClientUrls
    /\ log = <<>>
    /\ WcpIdle
    /\ HexIdle
    /\ GenIdle
    /\ FnIdle

LogEntry(c, op, message, out) ==
    [client |-> c, op |-> op, message |-> message, reply |-> out]

\* c.send_message(message), called directly.
ClientSendMessage ==
    /\ Len(log) < MaxClientOps
    /\ \E c \in Clients, message \in CSMessages :
          log' = Append(log, LogEntry(c, "send_message", message,
                                      send_message(message)))
    /\ UNCHANGED urls
    /\ UNCHANGED notClients

\* c.get_item_list().
ClientGetItemList ==
    /\ Len(log) < MaxClientOps
    /\ \E c \in Clients :
          log' = Append(log, LogEntry(c, "get_item_list", GetItemListMessage,
                                      send_message(GetItemListMessage)))
    /\ UNCHANGED urls
    /\ UNCHANGED notClients

\* c.add_variables(names).
ClientAddVariables ==
    /\ Len(log) < MaxClientOps
    /\ \E c \in Clients, names \in NameLists :
          log' = Append(log, LogEntry(c, "add_variables", AddVariablesMessage(names),
                                      send_message(AddVariablesMessage(names))))
    /\ UNCHANGED urls
    /\ UNCHANGED notClients

NextClients ==
    \/ ClientSendMessage
    \/ ClientGetItemList
    \/ ClientAddVariables

SpecClients == InitClients /\ [][NextClients]_vars

(***************************************************************************)
(* examples/hexadecimal.py: HexTranslator.basic_translate.  Strings are    *)
(* sequences of one-character strings.                                     *)
(***************************************************************************)
DecDigits == <<"0", "1", "2", "3", "4", "5", "6", "7", "8", "9">>

HexDigits ==
    <<"0", "1", "2", "3", "4", "5", "6", "7", "8", "9",
      "a", "b", "c", "d", "e", "f">>

IndexOf(c, alphabet) == CHOOSE p \in 1..Len(alphabet) : alphabet[p] = c

IsDecDigit(c) == \E p \in 1..Len(DecDigits) : DecDigits[p] = c

\* str.strip() as int() applies it: leading and trailing whitespace removed.
RECURSIVE StripLeft(_)
StripLeft(s) ==
    IF Len(s) > 0 /\ Head(s) = " " THEN StripLeft(Tail(s)) ELSE s

RECURSIVE StripRight(_)
StripRight(s) ==
    IF Len(s) > 0 /\ s[Len(s)] = " "
    THEN StripRight(SubSeq(s, 1, Len(s) - 1))
    ELSE s

Strip(s) == StripRight(StripLeft(s))

\* The digits part of an integer literal: decimal digits, single underscores
\* allowed between two digits only.
IsDigitsPart(s) ==
    /\ Len(s) > 0
    /\ IsDecDigit(s[1])
    /\ IsDecDigit(s[Len(s)])
    /\ \A p \in 1..Len(s) :
          \/ IsDecDigit(s[p])
          \/ s[p] = "_" /\ IsDecDigit(s[p - 1]) /\ IsDecDigit(s[p + 1])

HasSign(s) == Len(s) > 0 /\ Head(s) \in {"+", "-"}

Unsigned(s) == IF HasSign(s) THEN Tail(s) ELSE s

\* Whether int(value) succeeds; otherwise it raises ValueError.
IntParses(value) == IsDigitsPart(Unsigned(Strip(value)))

RECURSIVE DigitsValue(_)
DigitsValue(s) ==
    IF Len(s) = 0
    THEN 0
    ELSE IF s[Len(s)] = "_"
    THEN DigitsValue(SubSeq(s, 1, Len(s) - 1))
    ELSE 10 * DigitsValue(SubSeq(s, 1, Len(s) - 1))
         + (IndexOf(s[Len(s)], DecDigits) - 1)

\* int(value), for a value that parses.
IntOf(value) ==
    LET s == Strip(value)
    IN  IF HasSign(s) /\ Head(s) = "-"
        THEN 0 - DigitsValue(Tail(s))
        ELSE DigitsValue(Unsigned(s))

RECURSIVE HexOfNat(_)
HexOfNat(n) ==
    IF n < 16
    THEN <<HexDigits[n + 1]>>
    ELSE Append(HexOfNat(n \div 16), HexDigits[(n % 16) + 1])

\* hex(n): "0x..." for n >= 0 and "-0x..." for n < 0.
Hex(n) ==
    IF n < 0
    THEN <<"-", "0", "x">> \o HexOfNat(0 - n)
    ELSE <<"0", "x">> \o HexOfNat(n)

RECURSIVE Zeros(_)
Zeros(n) == IF n <= 0 THEN <<>> ELSE <<"0">> \o Zeros(n - 1)

\* str.zfill(width): zeros are inserted after a leading sign.
ZFill(s, width) ==
    IF Len(s) >= width
    THEN s
    ELSE IF HasSign(s)
    THEN <<Head(s)>> \o Zeros(width - Len(s)) \o Tail(s)
    ELSE Zeros(width - Len(s)) \o s

basic_translate(num_bits, value) ==
    IF IntParses(value)
    THEN LET h == SubSeq(Hex(IntOf(value)), 3, Len(Hex(IntOf(value))))
         IN  [text |-> <<"0", "x">> \o ZFill(h, num_bits \div 4), kind |-> "Normal"]
    ELSE [text |-> value, kind |-> "Warn"]

ValueChars == {"-", "+", " ", "_", "0", "1", "9", "f"}

ValueInputs == SeqsUpTo(ValueChars, MaxValueLen)

NumBitsInputs == {1, 4, 8, 16}

InitHex ==
    /\ translated = <<>>
    /\ WcpIdle
    /\ ClientsIdle
    /\ GenIdle
    /\ FnIdle

\* One call HexTranslator.basic_translate(num_bits, value); each behaviour
\* observes a single call.
Translate ==
    /\ translated = <<>>
    /\ \E num_bits \in NumBitsInputs, value \in ValueInputs :
          translated' = <<[num_bits |-> num_bits, value |-> value,
                           result |-> basic_translate(num_bits, value)]>>
    /\ UNCHANGED notHex

NextHex == Translate

SpecHex == InitHex /\ [][NextHex]_vars

(***************************************************************************)
(* examples/perioding_gen.py: PeriodicVCDGenerator.                        *)
(*                                                                         *)
(* The generator's arithmetic is floating point over a 5 ms run sampled    *)
(* every nanosecond.  Here time is exact: a signal has a period in         *)
(* picoseconds (10^12 / freq) and a phase given as a fraction of a cycle   *)
(* (phase / 2 pi), rationals are pairs <<numerator, denominator>>, and the *)
(* table of signals is scaled down to periods of a few picoseconds, one    *)
(* signal per waveform.  The sine is tabulated at eighths of a cycle,      *)
(* which is where the periods and phases of the table sample it.           *)
(***************************************************************************)
\* The 94 printable characters of the identifier alphabet; "grave" stands for
\* the backquote, which a string of this notation cannot hold.
chars ==
    <<"!", "\"", "#", "$", "%", "&", "'", "(", ")", "*",
      "+", ",", "-", ".", "/", "0", "1", "2", "3", "4",
      "5", "6", "7", "8", "9", ":", ";", "<", "=", ">",
      "?", "@", "A", "B", "C", "D", "E", "F", "G", "H",
      "I", "J", "K", "L", "M", "N", "O", "P", "Q", "R",
      "S", "T", "U", "V", "W", "X", "Y", "Z", "[", "\\",
      "]", "^", "_", "grave", "a", "b", "c", "d", "e", "f",
      "g", "h", "i", "j", "k", "l", "m", "n", "o", "p",
      "q", "r", "s", "t", "u", "v", "w", "x", "y", "z",
      "{", "|", "}", "~">>

\* encode_id(n): n in base len(chars), most significant digit first.
RECURSIVE encode_id_loop(_, _)
encode_id_loop(n, result) ==
    IF n > 0
    THEN encode_id_loop(n \div Len(chars), <<chars[(n % Len(chars)) + 1]>> \o result)
    ELSE result

\* Variant: without the case n == 0.
encode_id_NoZeroCase(n) == encode_id_loop(n, <<>>)

encode_id(n) == IF n = 0 THEN <<chars[1]>> ELSE encode_id_loop(n, <<>>)

Min(S) == CHOOSE x \in S : \A y \in S : x <= y

\* signal_configs, scaled; the clock's frequency is twice the highest.
PeriodicConfigs ==
    <<[name |-> "sine", period |-> 8, phase |-> <<0, 1>>,
       wave_type |-> "sine", var_type |-> "integer", bitwidth |-> 16],
      [name |-> "cosine", period |-> 4, phase |-> <<1, 4>>,
       wave_type |-> "sine", var_type |-> "integer", bitwidth |-> 16],
      [name |-> "triangle", period |-> 4, phase |-> <<0, 1>>,
       wave_type |-> "triangle", var_type |-> "integer", bitwidth |-> 16],
      [name |-> "square", period |-> 16, phase |-> <<0, 1>>,
       wave_type |-> "square", var_type |-> "integer", bitwidth |-> 16],
      [name |-> "sawtooth", period |-> 4, phase |-> <<0, 1>>,
       wave_type |-> "sawtooth", var_type |-> "integer", bitwidth |-> 16]>>

signal_configs ==
    Append(PeriodicConfigs,
           [name |-> "clk",
            period |-> Min({PeriodicConfigs[i].period :
                               i \in 1..Len(PeriodicConfigs)}) \div 2,
            phase |-> <<0, 1>>,
            wave_type |-> "clock", var_type |-> "wire", bitwidth |-> 1])

amp_min == -1000

amp_max == 1000

\* round(): to the nearest integer, a tie to the even one.
Round(n, d) ==
    LET fl == IF n >= 0 THEN n \div d ELSE 0 - ((0 - n + d - 1) \div d)
        twice == 2 * (n - fl * d)
    IN  IF twice < d THEN fl
        ELSE IF twice > d THEN fl + 1
        ELSE IF fl % 2 = 0 THEN fl ELSE fl + 1

\* (freq * time_sec + phase / (2 * pi)) % 1, as a rational.
t_normalized(signal, time) ==
    LET d == signal.period * signal.phase[2]
        n == time * signal.phase[2] + signal.phase[1] * signal.period
    IN  <<n % d, d>>

\* 1000 * sin(2 * pi * k / 8), k = 0..7, to three decimals.
SineMilli == <<0, 707, 1000, 707, 0, -707, -1000, -707>>

\* wave_val, as a rational.
wave_val(signal, time) ==
    LET t == t_normalized(signal, time)
    IN  CASE signal.wave_type = "sine" ->
               <<SineMilli[((8 * t[1]) \div t[2]) + 1], 1000>>
          [] signal.wave_type = "triangle" ->
               IF 2 * t[1] < t[2]
               THEN <<4 * t[1] - t[2], t[2]>>
               ELSE <<3 * t[2] - 4 * t[1], t[2]>>
          [] signal.wave_type = "square" ->
               IF 2 * t[1] < t[2] THEN <<1, 1>> ELSE <<-1, 1>>
          [] signal.wave_type = "sawtooth" ->
               <<2 * t[1] - t[2], t[2]>>

calculate_signal_value(signal, time) ==
    IF signal.wave_type = "clock"
    THEN LET t == t_normalized(signal, time)
         IN  IF 2 * t[1] < t[2] THEN 1 ELSE 0
    ELSE LET w == wave_val(signal, time)
         \* amp_min + (wave_val + 1) / 2 * (amp_max - amp_min)
         IN  Round(2 * amp_min * w[2] + (w[1] + w[2]) * (amp_max - amp_min),
                   2 * w[2])

\* format(n, "b") for n >= 0.
RECURSIVE BinOfNat(_)
BinOfNat(n) ==
    IF n < 2
    THEN <<IF n = 0 THEN "0" ELSE "1">>
    ELSE Append(BinOfNat(n \div 2), IF n % 2 = 0 THEN "0" ELSE "1")

\* format(n, "b").
FormatB(n) == IF n < 0 THEN <<"-">> \o BinOfNat(0 - n) ELSE BinOfNat(n)

\* format(n, "0<width>b"): zeros are inserted after the sign.
FormatZeroB(n, width) == ZFill(FormatB(n), width)

\* Variant: negative values are formatted like the others.
value_line_NoComplement(signal, value) ==
    IF signal.bitwidth = 1
    THEN [kind |-> "scalar", id |-> signal.id, value |-> value]
    ELSE [kind |-> "vector", id |-> signal.id, value |-> value,
          bin_str |-> FormatB(value)]

\* The line written for one value of one signal.
value_line(signal, value) ==
    IF signal.bitwidth = 1
    THEN [kind |-> "scalar", id |-> signal.id, value |-> value]
    ELSE [kind |-> "vector", id |-> signal.id, value |-> value,
          bin_str |-> IF signal.var_type = "integer" /\ value < 0
                      THEN FormatZeroB(2 ^ signal.bitwidth + value, signal.bitwidth)
                      ELSE FormatB(value)]

RECURSIVE value_lines(_)
value_lines(changes) ==
    IF changes = <<>>
    THEN <<>>
    ELSE <<value_line(Head(changes)[1], Head(changes)[2])>>
         \o value_lines(Tail(changes))

SampleIntervals == {1, 2, 3, 4}

InitGen ==
    /\ signals = <<>>
    /\ file = <<>>
    /\ sample_interval_ps \in SampleIntervals
    /\ duration_ps \in 0..MaxDuration
    /\ current_time = 0
    /\ pc = "define_signals"
    /\ WcpIdle
    /\ ClientsIdle
    /\ HexIdle
    /\ FnIdle

\* define_signals: the declarations are written and self.signals is filled.
define_signals ==
    /\ pc = "define_signals"
    /\ signals' = [i \in 1..Len(signal_configs) |->
                      [id |-> encode_id(i - 1),
                       name |-> signal_configs[i].name,
                       period |-> signal_configs[i].period,
                       phase |-> signal_configs[i].phase,
                       wave_type |-> signal_configs[i].wave_type,
                       var_type |-> signal_configs[i].var_type,
                       bitwidth |-> signal_configs[i].bitwidth,
                       last_value |-> None]]
    /\ file' = file
               \o <<[kind |-> "scope"]>>
               \o [i \in 1..Len(signal_configs) |->
                      [kind |-> "var", id |-> encode_id(i - 1),
                       name |-> signal_configs[i].name,
                       var_type |-> signal_configs[i].var_type,
                       bitwidth |-> signal_configs[i].bitwidth]]
               \o <<[kind |-> "upscope"], [kind |-> "enddefinitions"]>>
    /\ pc' = "write_initial_values"
    /\ UNCHANGED <<sample_interval_ps, duration_ps, current_time>>
    /\ UNCHANGED notGen

\* write_initial_values: #0, $dumpvars, one value per signal, $end.
write_initial_values ==
    /\ pc = "write_initial_values"
    /\ LET values == [i \in 1..Len(signals) |->
                         calculate_signal_value(signals[i], 0)]
       IN  /\ signals' = [i \in 1..Len(signals) |->
                             [signals[i] EXCEPT !.last_value = Some(values[i])]]
           /\ file' = file
                      \o <<[kind |-> "timestamp", time |-> 0], [kind |-> "dumpvars"]>>
                      \o [i \in 1..Len(signals) |-> value_line(signals[i], values[i])]
                      \o <<[kind |-> "end"]>>
    /\ pc' = "simulate"
    /\ UNCHANGED <<sample_interval_ps, duration_ps, current_time>>
    /\ UNCHANGED notGen

\* simulate, up to the loop: current_time = sample_interval_ps.
simulate_enter ==
    /\ pc = "simulate"
    /\ current_time' = sample_interval_ps
    /\ pc' = "loop"
    /\ UNCHANGED <<signals, file, sample_interval_ps, duration_ps>>
    /\ UNCHANGED notGen

\* Variant: every signal is taken as changed.
changes_NoComparison(sigs, time) ==
    [i \in 1..Len(sigs) |-> <<sigs[i], calculate_signal_value(sigs[i], time)>>]

\* The list changes built by the inner loop: the signals whose value at time
\* is not their last_value, with that value, in the order of self.signals.
RECURSIVE changes(_, _)
changes(sigs, time) ==
    IF sigs = <<>>
    THEN <<>>
    ELSE LET new_value == calculate_signal_value(Head(sigs), time)
         IN  (IF Some(new_value) # Head(sigs).last_value
              THEN <<<<Head(sigs), new_value>>>>
              ELSE <<>>)
             \o changes(Tail(sigs), time)

\* One pass of the while loop of simulate.
simulate_step ==
    /\ pc = "loop"
    /\ current_time <= duration_ps
    /\ LET changed == changes(signals, current_time)
       IN  /\ signals' =
                 [i \in 1..Len(signals) |->
                     IF \E c \in 1..Len(changed) : changed[c][1].id = signals[i].id
                     THEN [signals[i] EXCEPT !.last_value =
                              Some(calculate_signal_value(signals[i], current_time))]
                     ELSE signals[i]]
           /\ file' = IF changed # <<>>
                      THEN file
                           \o <<[kind |-> "timestamp", time |-> current_time]>>
                           \o value_lines(changed)
                      ELSE file
    /\ current_time' = current_time + sample_interval_ps
    /\ UNCHANGED <<sample_interval_ps, duration_ps, pc>>
    /\ UNCHANGED notGen

\* The loop condition fails: simulate returns.
simulate_return ==
    /\ pc = "loop"
    /\ current_time > duration_ps
    /\ pc' = "done"
    /\ UNCHANGED <<signals, file, sample_interval_ps, duration_ps, current_time>>
    /\ UNCHANGED notGen

NextGen ==
    \/ define_signals
    \/ write_initial_values
    \/ simulate_enter
    \/ simulate_step
    \/ simulate_return

SpecGen == InitGen /\ [][NextGen]_vars

(***************************************************************************)
(* encode_id on its own, with define_signals as its caller.                *)
(***************************************************************************)
\* The numbers encoded: a stretch from 0 across the first carry, and the
\* numbers around the second and at the third.
EncodeInputs ==
    (0..MaxId)
    \cup {Len(chars) * Len(chars) - 1, Len(chars) * Len(chars),
          Len(chars) * Len(chars) * Len(chars)}

InitEncode ==
    /\ encoded = <<>>
    /\ formatted = <<>>
    /\ signals = <<>>
    /\ file = <<>>
    /\ sample_interval_ps = 0
    /\ duration_ps = 0
    /\ current_time = 0
    /\ pc = "define_signals"
    /\ WcpIdle
    /\ ClientsIdle
    /\ HexIdle

\* encode_id is called on two numbers.
Encode ==
    /\ encoded = <<>>
    /\ \E n, m \in EncodeInputs :
          encoded' = <<[n |-> n, id |-> encode_id(n)],
                       [n |-> m, id |-> encode_id(m)]>>
    /\ UNCHANGED formatted
    /\ UNCHANGED notFn

NextEncode ==
    \/ Encode
    \/ define_signals

SpecEncode == InitEncode /\ [][NextEncode]_vars

(***************************************************************************)
(* The formatting of a value line on its own.                              *)
(***************************************************************************)
\* The signals of the table as define_signals records them, as far as the
\* formatting reads them.
FormatSignals ==
    [i \in 1..Len(signal_configs) |->
        [id |-> encode_id(i - 1),
         var_type |-> signal_configs[i].var_type,
         bitwidth |-> signal_configs[i].bitwidth]]

InitFormat ==
    /\ formatted = <<>>
    /\ encoded = <<>>
    /\ WcpIdle
    /\ ClientsIdle
    /\ HexIdle
    /\ GenIdle

\* One value of the amplitude range is written for one signal.
Format ==
    /\ formatted = <<>>
    /\ \E i \in 1..Len(FormatSignals), value \in amp_min..amp_max :
          /\ FormatSignals[i].bitwidth = 1 => value \in {0, 1}
          /\ formatted' = <<[signal |-> FormatSignals[i],
                             line |-> value_line(FormatSignals[i], value)]>>
    /\ UNCHANGED encoded
    /\ UNCHANGED notFn

NextFormat == Format

SpecFormat == InitFormat /\ [][NextFormat]_vars

(***************************************************************************)
(* Vocabulary of the properties.                                           *)
(***************************************************************************)
Sent == 1..Len(sent)

IsGreeting(i) == sent[i].message_type = "greeting"

IsCommand(i) == sent[i].message_type = "command"

HasCommand(i) == IsCommand(i) /\ ~IsNone(sent[i].command)

CommandTag(i) == Get(sent[i].command).command_type

SupportedKinds == {"get_item_list", "add_variables"}

ReplyType(i) == IF Returned(replies[i]) THEN replies[i].value.message_type ELSE "raised"

\* The error-kind entry of reply i, "" when the reply is no error message.
ErrorKind(i) ==
    IF ReplyType(i) = "error" /\ ~IsNone(replies[i].value.error)
    THEN Get(replies[i].value.error).error
    ELSE ""

\* The kind tag of the response reply i carries, "" when it carries none.
ResponseKind(i) ==
    IF ReplyType(i) = "response" /\ ~IsNone(replies[i].value.response)
    THEN Get(replies[i].value.response).response_type
    ELSE ""

\* A greeting exchange has completed on the client before message i is sent.
GreetedBefore(i) ==
    \E j \in 1..(i - 1) : IsGreeting(j) /\ ReplyType(j) = "greeting"

TypeOK ==
    /\ server_url \in Urls
    /\ Len(replies) = Len(sent)
    /\ Len(sent) <= MaxOps
    /\ \A i \in Sent :
          sent[i] \in CSMessages \cup {GetItemListMessage}
                         \cup {AddVariablesMessage(n) : n \in NameLists}

(***************************************************************************)
(* C1.  As claimed: a command message sent before any greeting exchange    *)
(* has completed on the client is answered with an error message of kind   *)
(* not_ready, never with a response.  (Stated for commands that carry      *)
(* their payload; a command message built without one is C6's case.)       *)
(***************************************************************************)
C1_NotReadyBeforeHandshake ==
    \A i \in Sent :
        (HasCommand(i) /\ ~GreetedBefore(i))
            => (ReplyType(i) = "error" /\ ErrorKind(i) = "not_ready")

(***************************************************************************)
(* C1, amended.  The client has no handshake gate: a get_item_list or      *)
(* add_variables command sent before any greeting exchange has completed   *)
(* is processed and answered with a response of its own kind, and no reply *)
(* is ever an error of kind not_ready.                                     *)
(***************************************************************************)
C1_NoHandshakeGate ==
    \A i \in Sent :
        /\ ErrorKind(i) # "not_ready"
        /\ (HasCommand(i) /\ ~GreetedBefore(i) /\ CommandTag(i) \in SupportedKinds)
              => (ReplyType(i) = "response" /\ ResponseKind(i) = CommandTag(i))

\* Both supported commands are answered on a client that never greeted.
C1_Witness ==
    /\ \A i \in Sent : ~IsGreeting(i)
    /\ \E i \in Sent : HasCommand(i) /\ CommandTag(i) = "get_item_list"
                       /\ ReplyType(i) = "response"
    /\ \E i \in Sent : HasCommand(i) /\ CommandTag(i) = "add_variables"
                       /\ ReplyType(i) = "response"

(***************************************************************************)
(* Vocabulary of the helper calls.                                         *)
(***************************************************************************)
Calls == 1..Len(calls)

IsAdd(k) == calls[k].op = "add_variables" /\ Returned(calls[k].result)

IsList(k) == calls[k].op = "get_item_list" /\ Returned(calls[k].result)

Result(k) == calls[k].result.value

Elements(s) == {s[p] : p \in 1..Len(s)}

(***************************************************************************)
(* C2.  As claimed: add_variables(names) returns exactly one reference per *)
(* requested name, so the result is as long as names.                      *)
(***************************************************************************)
C2_OneRefPerName ==
    \A k \in Calls : IsAdd(k) => Len(Result(k)) = Len(calls[k].names)

(***************************************************************************)
(* C3.  As claimed: once add_variables(names) has returned, every later    *)
(* get_item_list of the session returns a list that includes every name    *)
(* of names.                                                               *)
(***************************************************************************)
C3_AddedNamesListed ==
    \A k, l \in Calls :
        (k < l /\ IsAdd(k) /\ IsList(l))
            => Elements(calls[k].names) \subseteq Elements(Result(l))

(***************************************************************************)
(* C4.  As claimed: add_variables of the empty list of names returns the   *)
(* empty list of references, and the reply it rests on is not an error.    *)
(***************************************************************************)
C4_EmptyAddIsNoOp ==
    \A k \in Calls :
        (IsAdd(k) /\ calls[k].names = <<>>)
            => (Result(k) = <<>> /\ ReplyType(calls[k].at) # "error")

(***************************************************************************)
(* C5.  As claimed: a command whose tag is not a supported kind is         *)
(* answered with an error message whose kind is unknown_command.           *)
(***************************************************************************)
C5_UnknownCommandKind ==
    \A i \in Sent :
        (HasCommand(i) /\ CommandTag(i) \notin SupportedKinds)
            => (ReplyType(i) = "error" /\ ErrorKind(i) = "unknown_command")

(***************************************************************************)
(* C5, amended.  A command whose tag is not a supported kind is answered   *)
(* with an error message, never a response; its error entry is the text    *)
(* "Unknown command" and its message entry "Command not recognized".       *)
(***************************************************************************)
C5_UnknownCommandText ==
    \A i \in Sent :
        (HasCommand(i) /\ CommandTag(i) \notin SupportedKinds)
            => /\ ReplyType(i) = "error"
               /\ IsNone(replies[i].value.response)
               /\ replies[i].value.error =
                      Some([error |-> "Unknown command",
                            message |-> "Command not recognized"])

\* An unsupported command has been sent and answered.
C5_Witness ==
    \E i \in Sent : /\ HasCommand(i)
                    /\ CommandTag(i) = "unknown_command"
                    /\ ReplyType(i) = "error"

(***************************************************************************)
(* C6.  As claimed: every message of type command handed to send_message,  *)
(* with or without a command payload, yields an SCMessage of type response *)
(* or error; no failure surfaces in another form.                          *)
(***************************************************************************)
C6_CommandAlwaysAnswered ==
    \A i \in Sent : IsCommand(i) => ReplyType(i) \in {"response", "error"}

(***************************************************************************)
(* C7.  Replies come in the order of the commands and each answers its own *)
(* command: the k-th outcome recorded belongs to the k-th message sent,    *)
(* every command gets its reply before the next one is issued, and the     *)
(* reply to a get_item_list (add_variables) command is the get_item_list   *)
(* (add_variables) response, to a command of another kind an error.        *)
(***************************************************************************)
Answers(i) ==
    IF CommandTag(i) \in SupportedKinds
    THEN ReplyType(i) = "response" /\ ResponseKind(i) = CommandTag(i)
    ELSE ReplyType(i) = "error"

C7_RepliesInCommandOrder ==
    /\ Len(replies) = Len(sent)
    /\ \A i \in Sent : HasCommand(i) => (Returned(replies[i]) /\ Answers(i))

\* Three commands of three kinds have been issued and answered, in order.
C7_Witness ==
    /\ Len(sent) = 3
    /\ \A i \in Sent : HasCommand(i) /\ Returned(replies[i])
    /\ CommandTag(1) = "add_variables"
    /\ CommandTag(2) = "unknown_command"
    /\ CommandTag(3) = "get_item_list"
    /\ ResponseKind(1) = "add_variables"
    /\ ReplyType(2) = "error"
    /\ ResponseKind(3) = "get_item_list"

(***************************************************************************)
(* C8.  A greeting message is answered with a greeting message whose       *)
(* commands list is present, non-empty and contains get_item_list and      *)
(* add_variables.                                                          *)
(***************************************************************************)
C8_GreetingListsCommands ==
    \A i \in Sent :
        IsGreeting(i)
            => /\ ReplyType(i) = "greeting"
               /\ ~IsNone(replies[i].value.commands)
               /\ Len(Get(replies[i].value.commands)) > 0
               /\ {"get_item_list", "add_variables"}
                      \subseteq Elements(Get(replies[i].value.commands))

\* A greeting declaring version 1.0 has been sent and answered.
C8_Witness ==
    \E i \in Sent : /\ IsGreeting(i)
                    /\ sent[i].version = Some(<<"1", ".", "0">>)
                    /\ Returned(replies[i])

(***************************************************************************)
(* C9.  As claimed: over the add_variables calls of a session, the         *)
(* references returned for two different variable names are different      *)
(* identifiers.  The reference of the p-th name is the p-th element of the *)
(* result.                                                                 *)
(***************************************************************************)
Paired(k) ==
    1..(IF Len(calls[k].names) < Len(Result(k))
        THEN Len(calls[k].names) ELSE Len(Result(k)))

C9_RefsNotReused ==
    \A k, l \in Calls :
        (IsAdd(k) /\ IsAdd(l))
            => \A p \in Paired(k), q \in Paired(l) :
                   calls[k].names[p] # calls[l].names[q]
                       => Result(k)[p].id # Result(l)[q].id

(***************************************************************************)
(* C10.  As claimed: a greeting whose declared version is absent or is not *)
(* of the form major.minor is answered with an error message of kind       *)
(* version_mismatch, not with a greeting.                                  *)
(***************************************************************************)
Digits == {"0", "1", "2", "3", "4", "5", "6", "7", "8", "9"}

IsNumber(s) == Len(s) > 0 /\ \A p \in 1..Len(s) : s[p] \in Digits

IsMajorMinor(v) ==
    \E k \in 1..Len(v) :
        /\ v[k] = "."
        /\ IsNumber(SubSeq(v, 1, k - 1))
        /\ IsNumber(SubSeq(v, k + 1, Len(v)))

DeclaresMajorMinor(i) ==
    ~IsNone(sent[i].version) /\ IsMajorMinor(Get(sent[i].version))

C10_VersionMismatch ==
    \A i \in Sent :
        (IsGreeting(i) /\ ~DeclaresMajorMinor(i))
            => (ReplyType(i) = "error" /\ ErrorKind(i) = "version_mismatch")

(***************************************************************************)
(* C10, amended.  The declared version is not examined: a greeting whose   *)
(* version is absent or is not of the form major.minor is answered, like   *)
(* any greeting, with a greeting message carrying version 1.0, and no      *)
(* reply is an error of kind version_mismatch.                             *)
(***************************************************************************)
C10_VersionNotExamined ==
    \A i \in Sent :
        /\ ErrorKind(i) # "version_mismatch"
        /\ (IsGreeting(i) /\ ~DeclaresMajorMinor(i))
              => /\ ReplyType(i) = "greeting"
                 /\ replies[i].value.version = Some(ServerVersion)

\* Greetings without a version and with a malformed one have been answered.
C10_Witness ==
    /\ \E i \in Sent : IsGreeting(i) /\ IsNone(sent[i].version)
                       /\ ReplyType(i) = "greeting"
    /\ \E i \in Sent : IsGreeting(i) /\ sent[i].version = Some(<<"x", ".", "0">>)
                       /\ ReplyType(i) = "greeting"

(***************************************************************************)
(* C11.  Whenever a command is answered with a message of type response,   *)
(* the response's kind tag equals the command's kind tag.                  *)
(***************************************************************************)
C11_ResponseKindMatches ==
    \A i \in Sent :
        (IsCommand(i) /\ ReplyType(i) = "response")
            => /\ HasCommand(i)
               /\ ~IsNone(replies[i].value.response)
               /\ Get(replies[i].value.response).response_type = CommandTag(i)

\* Both command kinds have been answered with a response, through the
\* helpers.
C11_Witness ==
    /\ \E k \in Calls : calls[k].op = "get_item_list"
                        /\ ReplyType(calls[k].at) = "response"
    /\ \E k \in Calls : calls[k].op = "add_variables"
                        /\ ReplyType(calls[k].at) = "response"

(***************************************************************************)
(* C12.  Every message of type error returned by send_message, whether an  *)
(* unknown command tag or an unknown message type caused it, carries an    *)
(* error payload with an error entry and a message entry, and carries no   *)
(* response, event, version or commands.                                   *)
(***************************************************************************)
C12_OneErrorShape ==
    \A i \in Sent :
        ReplyType(i) = "error"
            => /\ ~IsNone(replies[i].value.error)
               /\ {"error", "message"} \subseteq DOMAIN Get(replies[i].value.error)
               /\ IsNone(replies[i].value.response)
               /\ IsNone(replies[i].value.event)
               /\ IsNone(replies[i].value.version)
               /\ IsNone(replies[i].value.commands)

\* Errors of both causes have been returned.
C12_Witness ==
    /\ \E i \in Sent : HasCommand(i) /\ CommandTag(i) \notin SupportedKinds
                       /\ ReplyType(i) = "error"
    /\ \E i \in Sent : ~IsCommand(i) /\ ~IsGreeting(i) /\ ReplyType(i) = "error"

(***************************************************************************)
(* C13.  A message whose type is neither greeting nor command is answered  *)
(* with a message of type error, never a greeting or a response, whatever  *)
(* version, commands or command it carries.                                *)
(***************************************************************************)
C13_UnknownTypeIsError ==
    \A i \in Sent :
        (~IsGreeting(i) /\ ~IsCommand(i)) => ReplyType(i) = "error"

\* Messages of an unknown type, bare and carrying a version and a valid
\* command, have been answered.
C13_Witness ==
    /\ \E i \in Sent : /\ sent[i].message_type = "invalid_type"
                       /\ IsNone(sent[i].command)
                       /\ ReplyType(i) = "error"
    /\ \E i \in Sent : /\ sent[i].message_type = "invalid_type"
                       /\ ~IsNone(sent[i].command)
                       /\ ~IsNone(sent[i].version)
                       /\ ReplyType(i) = "error"

(***************************************************************************)
(* C16.  Over any sequence of greetings on the client, whatever versions   *)
(* they declare, every greeting reply carries the same version, "1.0".     *)
(***************************************************************************)
C16_ServerVersionStable ==
    \A i \in Sent :
        IsGreeting(i)
            => /\ ReplyType(i) = "greeting"
               /\ replies[i].value.version = Some(<<"1", ".", "0">>)
               /\ \A j \in Sent :
                      (IsGreeting(j) /\ Returned(replies[j]))
                          => replies[j].value.version = replies[i].value.version

\* Greetings declaring two different versions have been answered in one
\* session.
C16_Witness ==
    \E i, j \in Sent :
        /\ i < j
        /\ IsGreeting(i) /\ sent[i].version = Some(<<"2", ".", "1">>)
        /\ IsGreeting(j) /\ sent[j].version = Some(<<"1", ".", "0">>)
        /\ ReplyType(i) = "greeting" /\ ReplyType(j) = "greeting"

(***************************************************************************)
(* C17.  Every message send_message returns is a well-formed variant: its  *)
(* type is greeting, response or error; a greeting has version and         *)
(* commands set and response, error and event unset; a response has        *)
(* response set and version, commands, error and event unset.              *)
(***************************************************************************)
C17_WellFormedVariant ==
    \A i \in Sent :
        Returned(replies[i])
            => LET m == replies[i].value
               IN  /\ m.message_type \in {"greeting", "response", "error"}
                   /\ m.message_type = "greeting"
                         => /\ ~IsNone(m.version) /\ ~IsNone(m.commands)
                            /\ IsNone(m.response) /\ IsNone(m.error)
                            /\ IsNone(m.event)
                   /\ m.message_type = "response"
                         => /\ ~IsNone(m.response)
                            /\ IsNone(m.version) /\ IsNone(m.commands)
                            /\ IsNone(m.error) /\ IsNone(m.event)

\* A greeting, a response and an error have been returned in one session.
C17_Witness ==
    /\ \E i \in Sent : ReplyType(i) = "greeting"
    /\ \E i \in Sent : ReplyType(i) = "response"
    /\ \E i \in Sent : ReplyType(i) = "error"

(***************************************************************************)
(* C14.  A helper takes its result only from a message whose outer type is *)
(* response and whose response kind is the kind of the command issued: for *)
(* such a message it returns exactly the list the response carries; for a  *)
(* message of another outer type (event, error, greeting), whatever it     *)
(* carries, and for a response of another kind it returns the empty list.  *)
(***************************************************************************)
ReplyOfCall(k) == replies[calls[k].at].value

Matching(k) ==
    /\ ReplyOfCall(k).message_type = "response"
    /\ ~IsNone(ReplyOfCall(k).response)
    /\ Get(ReplyOfCall(k).response).response_type = calls[k].op

Foreign(k) ==
    \/ ReplyOfCall(k).message_type # "response"
    \/ /\ ~IsNone(ReplyOfCall(k).response)
       /\ Get(ReplyOfCall(k).response).response_type # calls[k].op

C14_ResultOnlyFromMatchingResponse ==
    \A k \in Calls :
        /\ Matching(k)
              => /\ Returned(calls[k].result)
                 /\ Result(k) = Get(Get(ReplyOfCall(k).response).data)
        /\ Foreign(k)
              => /\ Returned(calls[k].result)
                 /\ Result(k) = <<>>

\* get_item_list received an event that carries a non-empty get_item_list
\* response and returned the empty list.
C14_Witness ==
    \E k \in Calls :
        /\ calls[k].op = "get_item_list"
        /\ ReplyOfCall(k).message_type = "event"
        /\ ~IsNone(ReplyOfCall(k).response)
        /\ Get(ReplyOfCall(k).response).response_type = "get_item_list"
        /\ Get(Get(ReplyOfCall(k).response).data) = <<"item1", "item2">>
        /\ Result(k) = <<>>

(***************************************************************************)
(* C18.  send_message is stateless and deterministic: two equal messages,  *)
(* sent at any two points of any sequence of operations on the same client *)
(* or on different clients, receive equal replies; and no operation        *)
(* changes a client's server_url, the only state a client has.             *)
(***************************************************************************)
EqualMessagesEqualReplies ==
    \A p, q \in 1..Len(log) :
        log[p].message = log[q].message => log[p].reply = log[q].reply

IsHexDigit(c) == \E p \in 1..Len(HexDigits) : HexDigits[p] = c

RECURSIVE HexValue(_)
HexValue(s) ==
    IF Len(s) = 0
    THEN 0
    ELSE 16 * HexValue(SubSeq(s, 1, Len(s) - 1))
         + (IndexOf(s[Len(s)], HexDigits) - 1)

HexTranslated(call) ==
    LET text == call.result.text
        digits == SubSeq(text, 3, Len(text))
    IN  /\ call.result.kind = "Normal"
        /\ Len(text) >= 2
        /\ SubSeq(text, 1, 2) = <<"0", "x">>
        /\ \A p \in 1..Len(digits) : IsHexDigit(digits[p])
        /\ Len(digits) >= call.num_bits \div 4
        /\ HexValue(digits) = IntOf(call.value)

C20_HexOfParsedInteger ==
    \A p \in 1..Len(translated) :
        IF IntParses(translated[p].value)
        THEN HexTranslated(translated[p])
        ELSE /\ translated[p].result.text = translated[p].value
             /\ translated[p].result.kind = "Warn"

\* Sanity of the model outside the failing inputs: the claim holds of every
\* value string that parses to a non-negative integer or does not parse.
HexOfNonNegative ==
    \A p \in 1..Len(translated) :
        IF IntParses(translated[p].value)
        THEN IntOf(translated[p].value) >= 0 => HexTranslated(translated[p])
        ELSE /\ translated[p].result.text = translated[p].value
             /\ translated[p].result.kind = "Warn"


(***************************************************************************)
(* The value change section of the generated file.                         *)
(***************************************************************************)
IsTimestamp(j) == file[j].kind = "timestamp"

IsValue(j) == file[j].kind \in {"scalar", "vector"}

\* The positions of the lines simulate wrote: those after the $end line.
SimulateLines == {j \in 1..Len(file) : \E e \in 1..(j - 1) : file[e].kind = "end"}

\* The value lines of signal id written before position j.
Earlier(j, id) == {k \in 1..(j - 1) : IsValue(k) /\ file[k].id = id}

Max(S) == CHOOSE x \in S : \A y \in S : y <= x

\* The sample times simulate has passed.
SamplesDone ==
    {t \in 1..duration_ps : t % sample_interval_ps = 0 /\ t < current_time}

Stamped(t) == \E j \in SimulateLines : IsTimestamp(j) /\ file[j].time = t

\* C19: the timestamps in the file are strictly increasing; each timestamp
\* simulate writes is a positive multiple of sample_interval_ps that does not
\* exceed the duration and is followed by a value line; and each value line
\* simulate writes differs from the value last written for its signal.
C19_TimestampsAndChanges ==
    /\ \A j, k \in 1..Len(file) :
          IsTimestamp(j) /\ IsTimestamp(k) /\ j < k => file[j].time < file[k].time
    /\ \A j \in SimulateLines :
          IsTimestamp(j) =>
             /\ file[j].time > 0
             /\ file[j].time % sample_interval_ps = 0
             /\ file[j].time <= duration_ps
             /\ j < Len(file)
             /\ IsValue(j + 1)
    /\ \A j \in SimulateLines :
          IsValue(j) =>
             /\ Earlier(j, file[j].id) # {}
             /\ file[Max(Earlier(j, file[j].id))].value # file[j].value

\* simulate has returned, having passed a sample at which nothing changed and
\* no timestamp was written, and a later one at which only some signals changed.
C19_Witness ==
    /\ pc = "done"
    /\ \E s, t \in SamplesDone :
          /\ s < t
          /\ ~Stamped(s)
          /\ Stamped(t)
          /\ \E i \in 1..Len(signals) :
                \A j \in SimulateLines : IsValue(j) => file[j].id # signals[i].id

(***************************************************************************)
(* Identifiers and value strings.                                          *)
(***************************************************************************)
InAlphabet(c) == \E p \in 1..Len(chars) : chars[p] = c

\* The number an identifier stands for in base len(chars).
RECURSIVE DecodeId(_)
DecodeId(id) ==
    IF id = <<>>
    THEN 0
    ELSE DecodeId(SubSeq(id, 1, Len(id) - 1)) * Len(chars)
         + (IndexOf(id[Len(id)], chars) - 1)

\* C21: encode_id returns a non-empty string over the alphabet that is the
\* base-94 representation of its argument, different arguments get different
\* strings, and the identifiers define_signals assigns are pairwise distinct.
C21_EncodeIdInjective ==
    /\ Len(chars) = 94
    /\ \A c \in 1..Len(encoded) :
          /\ encoded[c].id # <<>>
          /\ \A k \in 1..Len(encoded[c].id) : InAlphabet(encoded[c].id[k])
          /\ DecodeId(encoded[c].id) = encoded[c].n
    /\ \A c, d \in 1..Len(encoded) :
          encoded[c].n # encoded[d].n => encoded[c].id # encoded[d].id
    /\ \A i, j \in 1..Len(signals) :
          i # j => signals[i].id # signals[j].id

\* encode_id has been called on the last one-character number and the first
\* two-character one, and define_signals has assigned the identifiers.
C21_Witness ==
    /\ Len(encoded) = 2
    /\ encoded[1].n = Len(chars) - 1
    /\ encoded[2].n = Len(chars)
    /\ Len(encoded[1].id) = 1
    /\ Len(encoded[2].id) = 2
    /\ Len(signals) > 1

IsBits(s) == \A k \in 1..Len(s) : s[k] \in {"0", "1"}

\* The unsigned number a string of bits stands for.
RECURSIVE BitsValue(_)
BitsValue(s) ==
    IF s = <<>>
    THEN 0
    ELSE 2 * BitsValue(SubSeq(s, 1, Len(s) - 1)) + (IF s[Len(s)] = "1" THEN 1 ELSE 0)

\* A string of at most w bits read as a w-bit two's-complement number.
TwosComplement(s, w) ==
    IF BitsValue(s) >= 2 ^ (w - 1) THEN BitsValue(s) - 2 ^ w ELSE BitsValue(s)

\* C22: for an integer signal of w > 1 bits, a negative value of the amplitude
\* range is written as exactly w bits standing for 2^w + v, a non-negative one
\* as its plain binary form of at most w - 1 bits, and either string read as a
\* w-bit two's-complement number is the value; w is 16.
C22_TwosComplementRoundTrip ==
    \A c \in 1..Len(formatted) :
       LET w == formatted[c].signal.bitwidth
           line == formatted[c].line
       IN  formatted[c].signal.var_type = "integer" /\ w > 1 =>
              /\ w = 16
              /\ line.kind = "vector"
              /\ line.bin_str # <<>>
              /\ IsBits(line.bin_str)
              /\ IsBits(line.bin_str) =>
                    /\ line.value < 0 =>
                          /\ Len(line.bin_str) = w
                          /\ BitsValue(line.bin_str) = 2 ^ w + line.value
                    /\ line.value >= 0 =>
                          /\ Len(line.bin_str) <= w - 1
                          /\ line.bin_str = BinOfNat(line.value)
                          /\ BitsValue(line.bin_str) = line.value
                    /\ TwosComplement(line.bin_str, w) = line.value

\* The lowest value of the range has been written for a 16-bit integer signal.
C22_Witness ==
    /\ Len(formatted) = 1
    /\ formatted[1].signal.var_type = "integer"
    /\ formatted[1].signal.bitwidth = 16
    /\ formatted[1].line.value = amp_min
    /\ Len(formatted[1].line.bin_str) = 16
=============================================================================
